---- MODULE Spec2Model ----
(***************************************************************************)
(* HashmapBuffer (cpp/open3d/core/hashmap/HashmapBuffer.h): the fixed-size *)
(* slot pool of the hashmap.  The buffer owns the index heap heap_, the    *)
(* device specific heap top heap_top_, the key buffer and the value        *)
(* buffers.  Allocate and Free are carried out by the C++/CUDA accessors   *)
(* on the heap and the heap top that the buffer hands out (GetIndexHeap,   *)
(* GetHeapTop); the header documents them (lines 27-43).                   *)
(***************************************************************************)
EXTENDS Integers, Sequences, FiniteSets, TLC

\* ------------------------------------------------------------------ bounds
MaxCapacity == 4
MaxOps == 5
MaxCalls == 2
MaxValueIndex == 2
MaxGarbage == 1

Threads == {"t1", "t2"}
Devices == {"CPU", "CUDA"}
KeyDsizes == {4}
ValueDsizes == {<<>>, <<4>>, <<8, 4>>}
Payloads == {1}

\* ------------------------------------------------------------------- state
VARIABLES
    device,         \* heap_.GetDevice().GetType()
    heap,           \* heap_ : index -> addr_t
    heap_top,       \* heap_top_ : [cpu, cuda]
    key_buffer,     \* key_buffer_ : [dsize, data]
    value_buffers,  \* value_buffers_ : sequence of [dsize, data]
    phase,          \* "constructed" until the accessor has reset the heap
    allocated,      \* addresses handed out by Allocate and not yet freed
    hist,           \* the Allocate/Free calls made so far, with their results
    last,           \* the call that has just returned, and the state before it
    pc,             \* per execution unit: its position in Allocate / Free
    loc,            \* per execution unit: the locals of the running call
    round,          \* bookkeeping of the current group of concurrent calls
    oob             \* whether a call has indexed the heap out of its bounds

vars == <<device, heap, heap_top, key_buffer, value_buffers, phase,
          allocated, hist, last, pc, loc, round, oob>>

buffer == <<device, heap, heap_top, key_buffer, value_buffers>>
threadVars == <<pc, loc, round, oob>>

\* ---------------------------------------------------------------- tensors
\* A cell of a freshly constructed Tensor holds no defined value.  The heap
\* and the device heap top are read as integers, so for them the undefined
\* content is any value of UninitInts; key and value cells are opaque
\* byte blobs the buffer never interprets, and NoData marks an unwritten one.
GetCapacityOf(h) == Cardinality(DOMAIN h)
NoData == 0
NoTensor == [defined |-> FALSE, item |-> 0]
Scalar(v) == [defined |-> TRUE, item |-> v]
Indices(c) == 0 .. (c - 1)
UninitInts == 0 .. MaxGarbage
ObjectTensor(c, dsize) == [dsize |-> dsize, data |-> [i \in Indices(c) |-> NoData]]

\* struct HeapTop { Tensor cuda; std::atomic<int> cpu = {0}; }
HeapTopCpuInitBad == GetCapacityOf(heap)
HeapTopCpuInit == 0

\* ------------------------------------------------------------- accessors
GetDevice == device
GetCapacity == GetCapacityOf(heap)
GetKeyDsize == key_buffer.dsize
GetValueDsizes == [i \in 1 .. Len(value_buffers) |-> value_buffers[i].dsize]
GetIndexHeap == heap
GetKeyBuffer == key_buffer
GetValueBuffers == value_buffers

\* GetHeapTopIndex(): the device scalar on CUDA, the atomic otherwise.
HeapTopIndexOfBad(ht) == ht.cpu
HeapTopIndexOf(ht) == IF device = "CUDA" THEN ht.cuda.item ELSE ht.cpu
GetHeapTopIndex == HeapTopIndexOf(heap_top)

\* GetHeapTop(): the structure, dispatched on the device by the accessor.
WithHeapTop(ht, v) ==
    IF device = "CUDA" THEN [ht EXCEPT !.cuda = Scalar(v)] ELSE [ht EXCEPT !.cpu = v]

Addrs == Indices(GetCapacity)
\* The part of the heap that is maintained: the entries at or above the counter.
FreeRegion(h, top) == {h[i] : i \in {j \in DOMAIN h : j >= top}}
FreeSet == FreeRegion(heap, GetHeapTopIndex)

Snapshot == [heap |-> heap, heap_top |-> heap_top,
             key_buffer |-> key_buffer, value_buffers |-> value_buffers]

\* A returned call: its name, whether it succeeded, the address or counter it
\* returned (or was given), the tensor it returned (none: <<>>), the index it
\* used (of the heap, or of the value buffers), the count its error message
\* names, and the buffer as it was when the call began.
NoCall == [op |-> "none", ok |-> TRUE, addr |-> 0, ret |-> <<>>, idx |-> 0, count |-> 0,
           pre |-> <<>>]
Call(op, ok, addr) == [op |-> op, ok |-> ok, addr |-> addr, ret |-> <<>>, idx |-> 0,
                       count |-> 0, pre |-> <<Snapshot>>]
Entry(op, ok, addr, h, top) ==
    [op |-> op, ok |-> ok, addr |-> addr, top |-> top, free |-> FreeRegion(h, top)]
Ready == phase = "ready"
AllIdle == \A t \in Threads : pc[t] = "idle"
Remove(s, a) ==
    LET i == CHOOSE k \in 1 .. Len(s) : s[k] = a
    IN [k \in 1 .. (Len(s) - 1) |-> IF k < i THEN s[k] ELSE s[k + 1]]
Range(s) == {s[k] : k \in 1 .. Len(s)}
\* The addresses held are kept in ascending order, an address once per holder.
Insert(s, a) ==
    LET n == Cardinality({k \in 1 .. Len(s) : s[k] <= a})
    IN [k \in 1 .. (Len(s) + 1) |->
           IF k <= n THEN s[k] ELSE IF k = n + 1 THEN a ELSE s[k - 1]]
\* A group of concurrent Allocate calls: the counter and the free addresses
\* when its first call began, the calls begun, failed and returned so far.
NoRound == [top0 |-> 0, free0 |-> {}, n |-> 0, fails |-> 0, rets |-> <<>>]

\* --------------------------------------------------------------- construction
\* HashmapBuffer(capacity, dsize_key, dsize_values, device)
Init ==
    \E c \in 0 .. MaxCapacity, dev \in Devices, dk \in KeyDsizes, dvs \in ValueDsizes :
        /\ device = dev
        /\ heap \in [Indices(c) -> UninitInts]
        /\ key_buffer = ObjectTensor(c, dk)
        /\ value_buffers = [i \in 1 .. Len(dvs) |-> ObjectTensor(c, dvs[i])]
        /\ \E cu \in UninitInts :
              heap_top = [cpu |-> HeapTopCpuInit,
                          cuda |-> IF dev = "CUDA" THEN Scalar(cu) ELSE NoTensor]
        /\ phase = "constructed"
        /\ allocated = <<>>
        /\ hist = <<>>
        /\ last = NoCall
        /\ pc = [t \in Threads |-> "idle"]
        /\ loc = [t \in Threads |-> [idx |-> 0, addr |-> 0, calls |-> 0]]
        /\ round = NoRound
        /\ oob = FALSE

\* The accessor's initial heap, as the header draws it: heap[i] = i, counter 0.
ResetHeapBad(h) == [i \in DOMAIN h |-> GetCapacityOf(h) - 1 - i]
ResetHeap(h) == [i \in DOMAIN h |-> i]
Reset ==
    /\ phase = "constructed"
    /\ heap' = ResetHeap(heap)
    /\ heap_top' = WithHeapTop(heap_top, 0)
    /\ phase' = "ready"
    /\ last' = [NoCall EXCEPT !.op = "Reset"]
    /\ UNCHANGED <<device, key_buffer, value_buffers, allocated, hist, threadVars>>

\* ------------------------------------------------------------ the allocator
\* No address is available: every entry above the counter has been extracted.
ExhaustedBad(top) == top + 1 >= GetCapacity
Exhausted(top) == top >= GetCapacity

\* Malloc: the ptr is extracted from the heap at the counter, which moves up.
AllocIndexBad(top) == 0
AllocIndex(top) == top
TopAfterAllocateBad(top) == top
TopAfterAllocate(top) == top + 1
\* Free: the counter moves down and the ptr is put back on top of the heap.
FreeIndexBad(top) == top
FreeIndex(top) == top - 1
TopAfterFreeBad(top) == top
TopAfterFree(top) == top - 1

InBounds(i) == i \in DOMAIN heap
\* What a read of heap[i] yields; an index outside the heap reads whatever
\* lies there.
HeapRead(i) == IF InBounds(i) THEN {heap[i]} ELSE UninitInts
\* heap after heap[i] = a; an index outside the heap lands outside the
\* buffer's state.
HeapWrite(i, a) == IF InBounds(i) THEN [heap EXCEPT ![i] = a] ELSE heap

\* A slip: the counter is moved before the pool is found exhausted.
AllocateBad ==
    /\ phase = "ready" /\ AllIdle /\ Len(hist) < MaxOps
    /\ LET top == GetHeapTopIndex IN
        /\ heap_top' = WithHeapTop(heap_top, TopAfterAllocate(top))
        /\ IF Exhausted(top)
           THEN /\ last' = Call("Allocate", FALSE, 0)
                /\ hist' = Append(hist, Entry("Allocate", FALSE, 0, heap,
                                              TopAfterAllocate(top)))
                /\ UNCHANGED allocated
           ELSE /\ allocated' = Insert(allocated, heap[AllocIndex(top)])
                /\ last' = Call("Allocate", TRUE, heap[AllocIndex(top)])
                /\ hist' = Append(hist, Entry("Allocate", TRUE, heap[AllocIndex(top)],
                                              heap, TopAfterAllocate(top)))
    /\ UNCHANGED <<device, heap, key_buffer, value_buffers, phase, threadVars>>

Allocate ==
    /\ phase = "ready" /\ AllIdle /\ Len(hist) < MaxOps
    /\ LET top == GetHeapTopIndex IN
        IF Exhausted(top)
        THEN /\ last' = Call("Allocate", FALSE, 0)
             /\ hist' = Append(hist, Entry("Allocate", FALSE, 0, heap, top))
             /\ UNCHANGED <<buffer, allocated>>
        ELSE \E addr \in HeapRead(AllocIndex(top)) :
             /\ heap_top' = WithHeapTop(heap_top, TopAfterAllocate(top))
             /\ allocated' = Insert(allocated, addr)
             /\ last' = [Call("Allocate", TRUE, addr) EXCEPT !.idx = AllocIndex(top)]
             /\ hist' = Append(hist, Entry("Allocate", TRUE, addr, heap,
                                           TopAfterAllocate(top)))
             /\ UNCHANGED <<device, heap, key_buffer, value_buffers>>
    /\ UNCHANGED <<phase, threadVars>>

\* Free(address); the caller frees only an address it holds.
FreeOf(a) ==
    LET top == GetHeapTopIndex IN
    /\ heap' = HeapWrite(FreeIndex(top), a)
    /\ heap_top' = WithHeapTop(heap_top, TopAfterFree(top))
    /\ oob' = (oob \/ ~InBounds(FreeIndex(top)))
    /\ last' = [Call("Free", TRUE, a) EXCEPT !.idx = FreeIndex(top)]
    /\ hist' = Append(hist, Entry("Free", TRUE, a, heap', TopAfterFree(top)))
\* Free as it would be if it wiped the key cell of the address given back.
FreeBad ==
    /\ phase = "ready" /\ AllIdle /\ Len(hist) < MaxOps
    /\ \E a \in Range(allocated) \cap Addrs :
          /\ FreeOf(a)
          /\ allocated' = Remove(allocated, a)
          /\ key_buffer' = [key_buffer EXCEPT !.data[a] = NoData]
    /\ UNCHANGED <<device, value_buffers, phase, pc, loc, round>>
Free ==
    /\ phase = "ready" /\ AllIdle /\ Len(hist) < MaxOps
    /\ \E a \in Range(allocated) :
          /\ FreeOf(a)
          /\ allocated' = Remove(allocated, a)
    /\ UNCHANGED <<device, key_buffer, value_buffers, phase, pc, loc, round>>

\* ------------------------------------------------------------ observations
CallGetHeapTopIndex ==
    /\ AllIdle
    /\ last' = [Call("GetHeapTopIndex", TRUE, GetHeapTopIndex) EXCEPT !.pre = <<>>]
    /\ UNCHANGED <<buffer, phase, allocated, hist, threadVars>>

\* GetValueBuffer(i): LogError raises when i >= value_buffers_.size(), so
\* value_buffers_[i] is only reached with i in range.
ValueIndexOutOfBoundBad(i) == i > Len(value_buffers)
ValueIndexOutOfBound(i) == i >= Len(value_buffers)
ValueBufferAt(i) == IF i < Len(value_buffers) THEN value_buffers[i + 1] ELSE NoTensor
GetValueBuffer ==
    /\ AllIdle
    /\ \E i \in 0 .. MaxValueIndex :
          IF ValueIndexOutOfBound(i)
          THEN last' = [Call("GetValueBuffer", FALSE, 0) EXCEPT
                           !.idx = i, !.count = Len(value_buffers)]
          ELSE last' = [Call("GetValueBuffer", TRUE, 0) EXCEPT
                           !.idx = i, !.ret = <<ValueBufferAt(i)>>]
    /\ UNCHANGED <<buffer, phase, allocated, hist, threadVars>>

\* The holder of an address fills its key and value cells through the buffers.
WriteSlot ==
    /\ AllIdle
    /\ \E a \in Range(allocated) \cap Addrs, v \in Payloads :
          /\ key_buffer' = [key_buffer EXCEPT !.data[a] = v]
          /\ value_buffers' = [i \in 1 .. Len(value_buffers) |->
                                  [value_buffers[i] EXCEPT !.data[a] = v]]
    /\ last' = [NoCall EXCEPT !.op = "WriteSlot"]
    /\ UNCHANGED <<device, heap, heap_top, phase, allocated, hist, threadVars>>

Next ==
    \/ Reset
    \/ Allocate
    \/ Free
    \/ CallGetHeapTopIndex
    \/ GetValueBuffer
    \/ WriteSlot

Spec == Init /\ [][Next]_vars
\* ------------------------------------------------- concurrent execution units
\* Allocate and Free as the steps of a unit t.  The counter update is the one
\* atomic step; the test for exhaustion before it and the heap access around
\* it are steps of their own.
BeginCall(t) == [loc EXCEPT ![t].calls = @ + 1]
Joined ==
    IF AllIdle
    THEN [NoRound EXCEPT !.top0 = GetHeapTopIndex, !.free0 = FreeSet, !.n = 1]
    ELSE [round EXCEPT !.n = @ + 1]

\* Allocate, step 1: load the counter and test for exhaustion.
AllocCheck ==
    /\ Ready
    /\ \E t \in Threads :
          /\ pc[t] = "idle" /\ loc[t].calls < MaxCalls
          /\ IF Exhausted(GetHeapTopIndex)
             THEN /\ round' = [Joined EXCEPT !.fails = @ + 1]
                  /\ pc' = pc
             ELSE /\ round' = Joined
                  /\ pc' = [pc EXCEPT ![t] = "alloc_fetch"]
          /\ loc' = BeginCall(t)
    /\ UNCHANGED <<buffer, phase, allocated, hist, last, oob>>

\* Allocate, step 2: the atomic update; the unit keeps the index it drew.
AllocFetch ==
    /\ \E t \in Threads :
          /\ pc[t] = "alloc_fetch"
          /\ loc' = [loc EXCEPT ![t].idx = AllocIndex(GetHeapTopIndex)]
          /\ heap_top' = WithHeapTop(heap_top, TopAfterAllocate(GetHeapTopIndex))
          /\ oob' = (oob \/ ~InBounds(AllocIndex(GetHeapTopIndex)))
          /\ pc' = [pc EXCEPT ![t] = "alloc_read"]
    /\ UNCHANGED <<device, heap, key_buffer, value_buffers, phase, allocated, hist,
                   last, round>>

\* Allocate, step 3 as it would be if the read waited for the other units.
AllocReadBad ==
    /\ \E t \in Threads :
          /\ pc[t] = "alloc_read"
          /\ \A u \in Threads \ {t} : pc[u] = "idle"
          /\ \E addr \in HeapRead(loc[t].idx) :
                /\ allocated' = Insert(allocated, addr)
                /\ round' = [round EXCEPT !.rets = Append(@, addr)]
          /\ pc' = [pc EXCEPT ![t] = "idle"]
    /\ UNCHANGED <<buffer, phase, hist, last, loc, oob>>

\* Allocate, step 3: read the heap at the index drawn and return the address.
\* An index outside the heap reads whatever lies there.
AllocRead ==
    /\ \E t \in Threads :
          /\ pc[t] = "alloc_read"
          /\ \E addr \in HeapRead(loc[t].idx) :
                /\ allocated' = Insert(allocated, addr)
                /\ round' = [round EXCEPT !.rets = Append(@, addr)]
          /\ pc' = [pc EXCEPT ![t] = "idle"]
    /\ UNCHANGED <<buffer, phase, hist, last, loc, oob>>

\* Free(a), step 1: load the counter and write a into the heap below it.  An
\* index outside the heap lands outside the buffer's state.
FreeWrite ==
    /\ Ready
    /\ \E t \in Threads :
          /\ pc[t] = "idle" /\ loc[t].calls < MaxCalls
          /\ \E a \in Range(allocated) :
                /\ allocated' = Remove(allocated, a)
                /\ heap' = HeapWrite(FreeIndex(GetHeapTopIndex), a)
                /\ loc' = [BeginCall(t) EXCEPT ![t].addr = a]
          /\ oob' = (oob \/ ~InBounds(FreeIndex(GetHeapTopIndex)))
          /\ pc' = [pc EXCEPT ![t] = "free_dec"]
    /\ round' = IF AllIdle THEN NoRound ELSE round
    /\ UNCHANGED <<device, heap_top, key_buffer, value_buffers, phase, hist, last>>

\* Free(a), step 2: the atomic update.
FreeDec ==
    /\ \E t \in Threads :
          /\ pc[t] = "free_dec"
          /\ heap_top' = WithHeapTop(heap_top, TopAfterFree(GetHeapTopIndex))
          /\ pc' = [pc EXCEPT ![t] = "idle"]
    /\ UNCHANGED <<device, heap, key_buffer, value_buffers, phase, allocated, hist,
                   last, loc, round, oob>>

\* Concurrent Allocates; addresses are given back between the groups, one
\* Free at a time and none while an Allocate runs.
NoFreeRunning == \A t \in Threads : pc[t] # "free_dec"
AllocCheckApart == NoFreeRunning /\ AllocCheck
FreeWriteApart == AllIdle /\ FreeWrite
NextAlloc ==
    \/ Reset
    \/ AllocCheckApart
    \/ AllocFetch
    \/ AllocRead
    \/ FreeWriteApart
    \/ FreeDec

SpecAlloc == Init /\ [][NextAlloc]_vars

\* Allocates running concurrently with each other and with a Free; two Frees
\* do not overlap.
FreeWriteAlone == NoFreeRunning /\ FreeWrite
NextConc ==
    \/ Reset
    \/ AllocCheck
    \/ AllocFetch
    \/ AllocRead
    \/ FreeWriteAlone
    \/ FreeDec

SpecConc == Init /\ [][NextConc]_vars

\* Any interleaving of Allocate and Free calls.  Each unit that is inside a
\* call keeps taking its own steps: Continue(t) is the next step of unit t.
NextAny ==
    \/ Reset
    \/ AllocCheck
    \/ AllocFetch
    \/ AllocRead
    \/ FreeWrite
    \/ FreeDec

Continue(t) ==
    /\ pc[t] # "idle"
    /\ AllocFetch \/ AllocRead \/ FreeDec
    /\ pc'[t] # pc[t]

\* Allocate and Free do not touch the key and value arrays: one layout of
\* the slots is enough to follow their interleavings.
InitOneValue == Init /\ Len(value_buffers) = 1

SpecFair ==
    InitOneValue /\ [][NextAny]_vars /\ \A t \in Threads : WF_vars(Continue(t))

\* ---------------------------------------------------- a caller's double free
\* Free(a) of an address that is free already: nothing tests for it, so the
\* call runs as any Free does.
DoubleFree ==
    /\ phase = "ready" /\ AllIdle /\ Len(hist) < MaxOps
    /\ \E a \in FreeSet \cap Addrs :
          LET top == GetHeapTopIndex IN
          /\ heap' = HeapWrite(FreeIndex(top), a)
          /\ heap_top' = WithHeapTop(heap_top, TopAfterFree(top))
          /\ oob' = (oob \/ ~InBounds(FreeIndex(top)))
          /\ last' = Call("DoubleFree", TRUE, a)
          /\ hist' = Append(hist, Entry("DoubleFree", TRUE, a, heap', TopAfterFree(top)))
    /\ UNCHANGED <<device, key_buffer, value_buffers, phase, allocated, pc, loc, round>>

NextDoubleFree ==
    \/ Reset
    \/ Allocate
    \/ Free
    \/ DoubleFree

SpecDoubleFree == Init /\ [][NextDoubleFree]_vars

\* ================================================================= claims
Distinct(s) == \A i, j \in 1 .. Len(s) : i # j => s[i] # s[j]
PreOf(c) == c.pre[1]
PreTop(c) == HeapTopIndexOf(PreOf(c).heap_top)
IsIdentity(h) == \A i \in DOMAIN h : h[i] = i
AllAllocates(n) == \A j \in 1 .. n : hist[j].op = "Allocate"
Freed == \E k \in 1 .. Len(hist) : hist[k].op = "Free"

\* C1 (as stated): the addresses handed out and not yet freed are exactly
\* capacity - heap_top pairwise distinct addresses, each in [0, capacity).
C1_HandedOutIsCapacityMinusTop ==
    Ready => /\ Len(allocated) = GetCapacity - GetHeapTopIndex
             /\ Distinct(allocated)
             /\ Range(allocated) \subseteq Addrs

\* C1 (amended): the addresses handed out and not yet freed are exactly
\* heap_top pairwise distinct addresses, each in [0, capacity); the counter
\* counts the addresses handed out, and no address is handed out twice
\* without a Free of it in between.
C1_HandedOutIsTop ==
    Ready => /\ Len(allocated) = GetHeapTopIndex
             /\ Distinct(allocated)
             /\ Range(allocated) \subseteq Addrs
             /\ Range(allocated) \cap FreeSet = {}
C1_Witness ==
    /\ Ready /\ Len(allocated) >= 2 /\ Freed
    /\ last.op = "Allocate" /\ last.ok

C3_ConstructedFull ==
    phase = "constructed" => IsIdentity(heap) /\ GetHeapTopIndex = GetCapacity

\* C3 (amended): right after construction of a host buffer GetHeapTopIndex
\* returns 0 and the heap has capacity entries (which the constructor does
\* not fill); once the accessor has laid out the heap and before any Allocate
\* or Free, heap[i] = i for every i and GetHeapTopIndex returns 0, all slots
\* being free.
C3_ConstructedZero ==
    /\ phase = "constructed" /\ device = "CPU" =>
          GetHeapTopIndex = 0 /\ DOMAIN heap = Indices(GetCapacity)
    /\ Ready /\ hist = <<>> /\ AllIdle /\ round.n = 0 =>
          IsIdentity(heap) /\ GetHeapTopIndex = 0 /\ FreeSet = Addrs
C3_Witness ==
    /\ phase = "constructed" /\ device = "CPU" /\ GetCapacity >= 2
    /\ last.op = "GetHeapTopIndex" /\ last.addr = 0 /\ ~IsIdentity(heap)

\* C4: an Allocate that fails leaves the counter, the heap, the key buffer
\* and the value buffers as they were, and the failure is what it returns.
C4_FailedAllocateChangesNothing ==
    /\ last.op = "Allocate" /\ ~last.ok => Snapshot = PreOf(last)
    /\ last.op = "Allocate" =>
          /\ hist[Len(hist)].ok = last.ok
          /\ last.ok <=> ~Exhausted(PreTop(last))
C4_Witness ==
    /\ last.op = "Allocate" /\ ~last.ok /\ GetCapacity >= 2
    /\ \E a \in Addrs : key_buffer.data[a] # NoData

\* The addresses freed and not allocated again, most recently freed first,
\* after the first n calls.
RECURSIVE FreedStack(_)
FreedStack(n) ==
    IF n = 0 THEN <<>>
    ELSE LET e == hist[n]
             st == FreedStack(n - 1)
         IN IF e.op = "Free" THEN <<e.addr>> \o st
            ELSE IF e.ok /\ st # <<>> THEN Tail(st)
            ELSE st

\* C5 (amended): Allocate right after Free(a) succeeds and returns a, and
\* Allocate always returns the most recently freed address not allocated
\* again since (capacity 4: Allocate returns 0, Allocate returns 1, Free(0),
\* Allocate returns 0).
C5_LIFO ==
    \A i \in 1 .. Len(hist) :
        LET e == hist[i]
            st == FreedStack(i - 1)
        IN e.op = "Allocate" /\ st # <<>> => e.ok /\ e.addr = Head(st)
C5_Example(first, second) ==
    GetCapacity = 4 =>
        /\ Len(hist) >= 1 /\ hist[1].op = "Allocate" => hist[1].addr = first
        /\ Len(hist) >= 2 /\ AllAllocates(2) => hist[2].addr = second
        /\ Len(hist) >= 4 /\ AllAllocates(2) /\ hist[3].op = "Free"
             /\ hist[3].addr = first /\ hist[4].op = "Allocate" => hist[4].addr = first
C5_LIFOFromZero == C5_LIFO /\ C5_Example(0, 1)
C5_Witness ==
    /\ GetCapacity = 4 /\ Len(hist) = 4 /\ AllAllocates(2)
    /\ hist[3].op = "Free" /\ hist[3].addr = hist[1].addr
    /\ hist[4].op = "Allocate" /\ hist[4].ok

\* C5 (as stated): the same, with the example Allocate returns 3, Allocate
\* returns 2, Free(3), Allocate returns 3.
C5_LIFOFromTop == C5_LIFO /\ C5_Example(3, 2)

\* The state after the first i calls (i = 0: the fresh heap).
TopAt(i) == IF i = 0 THEN 0 ELSE hist[i].top
FreeAt(i) == IF i = 0 THEN Addrs ELSE hist[i].free
\* The addresses allocated by calls i+1 .. j and not freed by them; <<FALSE>>
\* when one of these calls frees an address they did not allocate.
RECURSIVE Pending(_, _)
Pending(i, j) ==
    IF j = i THEN <<TRUE, {}>>
    ELSE LET e == hist[j]
             p == Pending(i, j - 1)
         IN IF ~p[1] THEN p
            ELSE IF e.op = "Free"
                 THEN IF e.addr \in p[2] THEN <<TRUE, p[2] \ {e.addr}>> ELSE <<FALSE, {}>>
            ELSE IF e.ok THEN <<TRUE, p[2] \cup {e.addr}>>
            ELSE p
Balanced(i, j) == Pending(i, j)[1] /\ Pending(i, j)[2] = {}

\* C6: over any run of calls in which each successful Allocate is matched by
\* one later Free of its address and nothing else is freed, heap_top and the
\* set of free addresses end as they began.
C6_BalancedRestores ==
    \A i \in 0 .. Len(hist) : \A j \in i .. Len(hist) :
        Balanced(i, j) => TopAt(j) = TopAt(i) /\ FreeAt(j) = FreeAt(i)
C6_Witness ==
    \E i \in 1 .. Len(hist) :
        /\ Len(hist) - i >= 4 /\ Balanced(i, Len(hist))
        /\ hist[i].op = "Allocate" /\ hist[i].ok
        /\ hist[Len(hist)].addr # hist[Len(hist) - 1].addr

Fetched == {t \in Threads : pc[t] = "alloc_read"}
\* No call has run the pool over: the heap entries above the counter and the
\* addresses held are what Allocate and Free made them.
Sound == Ready /\ ~oob

C8_AllocFreeIndependent ==
    Sound /\ AllIdle =>
        /\ Distinct(allocated)
        /\ Range(allocated) \cap FreeSet = {}
        /\ Range(allocated) \cup FreeSet = Addrs

\* C9: GetValueBuffer(i) with i >= the number of value buffers fails naming
\* i and that number, returns no tensor and leaves the buffer as it was.
C9_ValueIndexOutOfRange ==
    last.op = "GetValueBuffer" =>
        /\ last.idx >= Len(value_buffers) =>
              /\ ~last.ok /\ last.ret = <<>>
              /\ last.count = Len(value_buffers)
        /\ Snapshot = PreOf(last)
C9_Witness ==
    /\ last.op = "GetValueBuffer" /\ ~last.ok
    /\ last.idx = 0 /\ Len(value_buffers) = 0

\* C10: the heap as the header draws it: fresh, the counter is 0 and
\* heap[i] = i; Allocate returns the entry at the counter and moves the
\* counter up by one, leaving the heap alone; Free moves the counter down by
\* one and stores the address there, leaving the other entries alone; two
\* Allocates and Free(0) leave the counter at 1, heap[1] = 0 and heap[2..]
\* as they were.
C10_HeaderHeap ==
    /\ Ready /\ hist = <<>> /\ AllIdle /\ round.n = 0 =>
          GetHeapTopIndex = 0 /\ IsIdentity(heap)
    /\ last.op = "Allocate" /\ last.ok =>
          /\ last.addr = PreOf(last).heap[PreTop(last)]
          /\ GetHeapTopIndex = PreTop(last) + 1
          /\ heap = PreOf(last).heap
    /\ last.op = "Free" =>
          /\ GetHeapTopIndex = PreTop(last) - 1
          /\ heap = [PreOf(last).heap EXCEPT ![GetHeapTopIndex] = last.addr]
          /\ heap[GetHeapTopIndex] = last.addr
    /\ Len(hist) = 3 /\ AllAllocates(2) /\ hist[2].ok /\ hist[3].op = "Free"
       /\ hist[3].addr = 0 /\ last.op = "Free" =>
          /\ GetHeapTopIndex = 1 /\ heap[1] = 0
          /\ \A i \in DOMAIN heap : i >= 2 => heap[i] = i
C10_Witness ==
    /\ Len(hist) = 3 /\ AllAllocates(2) /\ hist[2].ok /\ hist[3].op = "Free"
    /\ hist[3].addr = 0 /\ last.op = "Free" /\ GetCapacity >= 3
\* The counter as the calls made so far leave it on either device: one up for
\* each successful Allocate, one down for each Free.
RECURSIVE CounterAfter(_)
CounterAfter(n) ==
    IF n = 0 THEN HeapTopCpuInit
    ELSE LET e == hist[n]
         IN CounterAfter(n - 1) + (IF e.op = "Free" THEN -1 ELSE IF e.ok THEN 1 ELSE 0)

\* C11: a host buffer and a device buffer behave alike: on either device
\* GetHeapTopIndex returns the same value after the same calls, beginning with
\* the same initial value right after construction; it reads the
\* representation chosen at construction, which stays the one in use (the
\* device scalar exists exactly on a device buffer, and the other
\* representation is never written).
C11_HostDeviceIdentical ==
    /\ phase = "constructed" => GetHeapTopIndex = HeapTopCpuInit
    /\ Ready /\ AllIdle /\ round.n = 0 => GetHeapTopIndex = CounterAfter(Len(hist))
    /\ last.op = "GetHeapTopIndex" =>
          last.addr = (IF device = "CUDA" THEN heap_top.cuda.item ELSE heap_top.cpu)
    /\ heap_top.cuda.defined <=> device = "CUDA"
    /\ device = "CUDA" => heap_top.cpu = HeapTopCpuInit
LowRegion(h, top) == {j \in DOMAIN h : j < top}
HighRegion(h, top) == {j \in DOMAIN h : j >= top}
\* The entries of h at the indices of region are pairwise distinct and are
\* exactly the addresses of free.
RegionIs(h, region, free) ==
    /\ \A i, j \in region : i # j => h[i] # h[j]
    /\ {h[i] : i \in region} = free
Held == Range(allocated)
PreFree(c) == FreeRegion(PreOf(c).heap, PreTop(c))

\* C12 (as stated): the entries heap[0 .. heap_top-1] are pairwise distinct
\* and are exactly the addresses that are free (all addresses but those
\* handed out and not yet freed).
C12_FreeRegionBelowTop ==
    Ready => RegionIs(heap, LowRegion(heap, GetHeapTopIndex), Addrs \ Held)

\* C12 (amended): the entries heap[heap_top .. capacity-1] are pairwise
\* distinct and are exactly the addresses that are free; Allocate removes
\* exactly the address it returns from this set and Free(a) adds exactly a.
C12_FreeRegionAboveTop ==
    /\ Ready => RegionIs(heap, HighRegion(heap, GetHeapTopIndex), Addrs \ Held)
    /\ last.op = "Allocate" /\ last.ok =>
          /\ last.addr \in PreFree(last)
          /\ FreeSet = PreFree(last) \ {last.addr}
    /\ last.op = "Free" =>
          /\ last.addr \notin PreFree(last)
          /\ FreeSet = PreFree(last) \cup {last.addr}
C12_Witness ==
    /\ Len(hist) >= 4 /\ last.op = "Free" /\ Len(allocated) >= 1
    /\ ~IsIdentity(heap) /\ GetHeapTopIndex < GetCapacity - 1
\* C13: once the heap is laid out the counter stays within 0 .. capacity in
\* every state, also while concurrent Allocates race for fewer free addresses
\* than there are callers.
C13_CounterInRange ==
    Ready => 0 <= GetHeapTopIndex /\ GetHeapTopIndex <= GetCapacity
Occurrences(h, region, a) == Cardinality({i \in region : h[i] = a})
HeldTimes(a) == Cardinality({k \in 1 .. Len(allocated) : allocated[k] = a})
IsPermutation(h) == \A a \in Indices(GetCapacityOf(h)) : Occurrences(h, DOMAIN h, a) = 1

\* C14 (as stated): the whole heap array holds every address of
\* [0, capacity) exactly once in every state.
C14_HeapIsPermutation ==
    Ready => IsPermutation(heap)

\* C14 (amended): the whole heap array holds every address exactly once as
\* long as no Free has been made; in every state its entries are valid
\* addresses, and every address occurs exactly once among the entries at or
\* above the counter and the addresses handed out (the entries below the
\* counter are stale and may repeat an address).
C14_MaintainedPartIsPermutation ==
    /\ Ready /\ ~Freed => IsPermutation(heap)
    /\ Ready =>
          /\ \A i \in DOMAIN heap : heap[i] \in Addrs
          /\ \A a \in Addrs :
                Occurrences(heap, HighRegion(heap, GetHeapTopIndex), a) + HeldTimes(a) = 1
C14_Witness ==
    /\ Ready /\ last.op = "Free" /\ ~IsPermutation(heap) /\ GetCapacity >= 3
\* The double frees of a made so far.
DoubleFrees(a) ==
    Cardinality({k \in 1 .. Len(hist) : hist[k].op = "DoubleFree" /\ hist[k].addr = a})
InFreeRegion(h, top, a) == Occurrences(h, HighRegion(h, top), a)

\* C15 (as stated): a Free(a) while a is free already is accepted without an
\* error and leaves a twice in the free region.
C15_DoubleFreeDuplicates ==
    last.op = "DoubleFree" =>
        last.ok /\ InFreeRegion(heap, GetHeapTopIndex, last.addr) >= 2

\* C15 (amended): a Free(a) while a is free already is accepted without an
\* error.  While some address is handed out (counter >= 1) it moves the
\* counter down and leaves a once more in the free region, so at least twice,
\* every double free adding one copy of a to the free and the held addresses
\* together; Allocates then hand a out to two callers.  With nothing handed
\* out (counter 0) it moves the counter to -1 and writes outside the heap.
C15_DoubleFreeUnchecked ==
    /\ last.op = "DoubleFree" =>
          /\ last.ok /\ GetHeapTopIndex = PreTop(last) - 1
          /\ PreTop(last) >= 1 /\ PreTop(last) <= GetCapacity =>
                /\ InFreeRegion(heap, GetHeapTopIndex, last.addr)
                      = InFreeRegion(PreOf(last).heap, PreTop(last), last.addr) + 1
                /\ InFreeRegion(heap, GetHeapTopIndex, last.addr) >= 2
          /\ PreTop(last) = 0 => oob /\ heap = PreOf(last).heap
    /\ Ready /\ ~oob =>
          \A a \in Addrs :
              InFreeRegion(heap, GetHeapTopIndex, a) + HeldTimes(a) = 1 + DoubleFrees(a)
C15_Witness ==
    /\ ~oob /\ Len(hist) >= 3
    /\ \E a \in Addrs : HeldTimes(a) = 2 /\ DoubleFrees(a) = 1
    /\ hist[Len(hist)].op = "Allocate" /\ hist[Len(hist) - 1].op = "Allocate"
    /\ hist[Len(hist)].addr = hist[Len(hist) - 1].addr
\* The address stored last at heap index i by the first n calls: by the
\* latest Free that wrote there, else by the layout of the heap.
RECURSIVE LastStored(_, _)
LastStored(i, n) ==
    IF n = 0 THEN i
    ELSE IF hist[n].op = "Free" /\ hist[n].top = i THEN hist[n].addr
    ELSE LastStored(i, n - 1)

\* C16 (as stated): Free writes at an index of [0, capacity) and is never
\* called with heap_top = capacity; Allocate reads index heap_top - 1 of the
\* state before the call, inside the free region [0, heap_top).
C16_AccessBelowTop ==
    /\ last.op = "Free" =>
          /\ last.idx \in Indices(GetCapacity)
          /\ PreTop(last) # GetCapacity
    /\ last.op = "Allocate" /\ last.ok =>
          /\ last.idx = PreTop(last) - 1
          /\ last.idx \in LowRegion(PreOf(last).heap, PreTop(last))

\* C16 (amended): Free writes at index heap_top - 1 of the state before the
\* call, an index of [0, capacity), and is never called with heap_top = 0;
\* Allocate reads index heap_top of the state before the call, inside the
\* free region [heap_top, capacity), and reads there what the layout of the
\* heap or the latest Free that wrote there has stored.
C16_AccessAtTop ==
    /\ last.op = "Free" =>
          /\ last.idx = PreTop(last) - 1
          /\ last.idx \in Indices(GetCapacity)
          /\ PreTop(last) # 0
          /\ heap[last.idx] = last.addr
    /\ last.op = "Allocate" /\ last.ok =>
          /\ last.idx = PreTop(last)
          /\ last.idx \in HighRegion(PreOf(last).heap, PreTop(last))
          /\ last.addr = LastStored(last.idx, Len(hist) - 1)
C16_Witness ==
    /\ last.op = "Allocate" /\ last.ok /\ last.addr # last.idx
    /\ last.idx >= 1 /\ GetHeapTopIndex = GetCapacity
\* C17: Allocate and Free are non-blocking.  Under any interleaving, with weak
\* fairness on each unit's own steps, a unit inside a call can always take
\* its next step, whatever the other units are doing, and every started call
\* returns.
C17_NonBlocking ==
    /\ [](\A t \in Threads : pc[t] # "idle" => ENABLED Continue(t))
    /\ \A t \in Threads : (pc[t] # "idle") ~> (pc[t] = "idle")
C17_Witness ==
    /\ pc["t1"] = "alloc_read" /\ pc["t2"] \in {"alloc_read", "free_dec"}
    /\ round.fails >= 1
\* Every key and value array has exactly capacity elements.
ArraysOfCapacity ==
    /\ DOMAIN key_buffer.data = Indices(GetCapacity)
    /\ \A i \in 1 .. Len(value_buffers) :
          DOMAIN value_buffers[i].data = Indices(GetCapacity)

\* C18: capacity and layout are fixed for the object's lifetime.  The arrays
\* have capacity elements after construction, and no call changes what
\* GetCapacity, GetKeyDsize and GetValueDsizes return or the number of
\* elements of a key or value array; Allocate and Free leave the contents of
\* the key and value arrays as they were.
C18_LayoutFixed ==
    /\ ArraysOfCapacity
    /\ [][/\ GetCapacity' = GetCapacity
          /\ GetKeyDsize' = GetKeyDsize
          /\ GetValueDsizes' = GetValueDsizes
          /\ ArraysOfCapacity'
          /\ last'.op \in {"Allocate", "Free"} =>
                /\ key_buffer' = key_buffer
                /\ value_buffers' = value_buffers]_vars
C18_Witness ==
    /\ last.op = "Free" /\ Len(hist) >= 3
    /\ key_buffer.data[last.addr] # NoData
    /\ Len(value_buffers) = 2
    /\ value_buffers[2].data[last.addr] # NoData
    /\ GetValueDsizes = <<8, 4>>
====
